---- MODULE Spec2Model ----
(***************************************************************************)
(* State-machine model of the e-commerce / blog / consultation backend     *)
(* (src/main.py, src/schemas.py).  The document store is a record of four  *)
(* collections.  blogpost, consultation and order are sequences of         *)
(* documents in insertion order, each with the _id the store minted.  No   *)
(* handler looks a product up by _id and the store promises no order, so   *)
(* product is a bag of documents without _id.  Amounts of an order are     *)
(* kept in hundredths of a currency unit.                                  *)
(*                                                                         *)
(* Spec      : requests handled one after another (each handler atomic).   *)
(* SpecPrice : create_order applied to every cart of a wider input set.    *)
(* SpecConc  : requests in flight together, one store call per step.       *)
(***************************************************************************)
EXTENDS Integers, Sequences, FiniteSets, Bags, TLC

VARIABLES
    db,      \* the store handle: TRUE when connected, FALSE when it is None
    store,   \* the collections of the document store
    last,    \* the request handled last and its response
    reqs,    \* the requests in flight together, each with its position
    origin   \* the store as it was when the requests in flight were admitted

vars == <<db, store, last, reqs, origin>>

-----------------------------------------------------------------------------
(* Bounds of the model *)

MaxOrders == 2
MaxConsultations == 2
MaxItems == 3
MaxRequests == 2

(* Program constants *)

NumSamples == 10
BasePrice == 499
PriceStep == 50
SampleStock == 20
GstPercent == 18
FreeShippingFrom == 999
ShippingFee == 49
DefaultLimit == 20
ObjectIdLen == 24

(* Input sets *)

\* Python None of an Optional[str] parameter; it is not one of the strings.
None == "<None>"

Slugs == {"hello", "world"}
Prices == {333, 499}
Quantities == {-1, 1, 2, 3}
Doctors == {"dr_rao"}
Times == {"10:00"}
Statuses == {None, "paid", "refunded"}
Limits == {1, DefaultLimit}

-----------------------------------------------------------------------------
(* The document store *)

\* 24 hexadecimal characters: the string form of the n-th identifier the store
\* mints in a collection.
HexId(n) ==
    IF n < 10 THEN "64a00000000000000000000" \o ToString(n)
              ELSE "64a0000000000000000000" \o ToString(n)

EmptyStore ==
    [product |-> EmptyBag, blogpost |-> <<>>, consultation |-> <<>>, order |-> <<>>]

\* doc with an _id key added
WithId(doc, id) ==
    [k \in DOMAIN doc \cup {"_id"} |-> IF k = "_id" THEN id ELSE doc[k]]

\* database.create_document: insert one document, return the new id as a string
NewId(S, coll) == HexId(Len(S[coll]) + 1)

create_document(S, coll, doc) ==
    [S EXCEPT ![coll] = Append(@, WithId(doc, NewId(S, coll)))]

RECURSIVE Take(_, _)
Take(s, n) == IF n <= 0 \/ s = <<>> THEN <<>> ELSE <<Head(s)>> \o Take(Tail(s), n - 1)

\* database.get_documents(coll): every document of the collection
get_documents(S, coll) == S[coll]

\* database.get_documents(coll, {}, limit): at most `limit` of them
get_documents_limit(S, coll, limit) == Take(S[coll], limit)

\* database.create_document("product", p)
create_product(S, doc) == [S EXCEPT !.product = @ (+) SetToBag({doc})]

\* db["product"].count_documents({})
count_documents(S) == BagCardinality(S.product)

\* db["product"].delete_many({})
delete_many(S) == [S EXCEPT !.product = EmptyBag]

Matches(S, coll, key, val) ==
    {i \in 1..Len(S[coll]) : S[coll][i][key] = val}

Min(set) == CHOOSE x \in set : \A y \in set : x <= y

\* what find_one returns when nothing matches (Python None)
NoDocument == [absent |-> TRUE]

\* collection.find_one({key: val}): the first match, or None
find_one(S, coll, key, val) ==
    IF Matches(S, coll, key, val) = {} THEN NoDocument
    ELSE S[coll][Min(Matches(S, coll, key, val))]

\* collection.update_one({"_id": id}, {"$set": {field: val}})
update_one(S, coll, id, field, val) ==
    IF Matches(S, coll, "_id", id) = {} THEN S
    ELSE [S EXCEPT ![coll][Min(Matches(S, coll, "_id", id))][field] = val]

\* bson.ObjectId(s) accepts a string of 24 hexadecimal characters and raises
\* InvalidId for any other string.
ObjectIdValid(s) == Len(s) = ObjectIdLen

-----------------------------------------------------------------------------
(* Responses *)

OK(body) == [code |-> 200, detail |-> "", body |-> body]

\* raise HTTPException(status_code, detail)
HTTPException(code, detail) == [code |-> code, detail |-> detail, body |-> [error |-> detail]]

\* an exception no handler catches: the framework answers 500
Unhandled(exc) == [code |-> 500, detail |-> exc, body |-> [error |-> exc]]

\* the adapter's report that the store handle is absent
StoreUnavailable == [code |-> 503, detail |-> "Database not available", body |-> [error |-> "Database not available"]]

Out(S, resp) == [store |-> S, resp |-> resp]

\* d["id"] = str(d.pop("_id"))
NormalizeId(d) ==
    [k \in (DOMAIN d \ {"_id"}) \cup {"id"} |-> IF k = "id" THEN d["_id"] ELSE d[k]]

NormalizeAll(docs) == [i \in 1..Len(docs) |-> NormalizeId(docs[i])]

-----------------------------------------------------------------------------
(* Products *)

SAMPLE_PRODUCTS ==
    [k \in 1..NumSamples |->
        LET i == k - 1 IN
        [title |-> "Product " \o ToString(i + 1),
         price |-> BasePrice + i * PriceStep,
         category |-> "general",
         sku |-> i + 1,
         stock_qty |-> SampleStock]]

\* a product that is in the collection before any seeding
LegacyProduct ==
    [title |-> "Legacy", price |-> 0, category |-> "general", sku |-> 0, stock_qty |-> 0]

LegacyStore(S) == create_product(S, LegacyProduct)

\* for p in SAMPLE_PRODUCTS: create_document("product", p)
RECURSIVE InsertAll(_, _)
InsertAll(S, docs) ==
    IF docs = <<>> THEN S
    ELSE InsertAll(create_product(S, Head(docs)), Tail(docs))

\* the skip test with the force flag ignored
SkipSeedingIgnoringForce(existing, force) == existing > 0

\* if existing > 0 and not body.force
SkipSeeding(existing, force) == existing > 0 /\ ~force

seed_products(dbh, S, force) ==
    LET existing == IF dbh THEN count_documents(S) ELSE 0 IN
    IF SkipSeeding(existing, force)
    THEN Out(S, OK([inserted |-> 0]))
    ELSE IF force /\ ~dbh THEN Out(S, Unhandled("TypeError"))
    ELSE IF ~dbh THEN Out(S, StoreUnavailable)
    ELSE LET S1 == IF force THEN delete_many(S) ELSE S IN
         Out(InsertAll(S1, SAMPLE_PRODUCTS),
             OK([inserted |-> Len(SAMPLE_PRODUCTS)]))

list_all(dbh, S, coll) ==
    IF ~dbh THEN Out(S, StoreUnavailable)
    ELSE Out(S, OK([items |-> NormalizeAll(get_documents(S, coll))]))

list_limited(dbh, S, coll, limit) ==
    IF ~dbh THEN Out(S, StoreUnavailable)
    ELSE Out(S, OK([items |-> NormalizeAll(get_documents_limit(S, coll, limit))]))

list_products(dbh, S) ==
    IF ~dbh THEN Out(S, StoreUnavailable)
    ELSE Out(S, OK([items |-> S.product]))

-----------------------------------------------------------------------------
(* Blogs *)

list_blogs(dbh, S) == list_all(dbh, S, "blogpost")

\* the duplicate test with the lookup on the title instead of the slug
SlugTakenByTitle(S, slug) == find_one(S, "blogpost", "title", slug) # NoDocument

\* exists = db["blogpost"].find_one({"slug": blog.slug}); if exists
SlugTaken(S, slug) == find_one(S, "blogpost", "slug", slug) # NoDocument

\* the insert of a store that holds a unique index on slug
InsertBlogUnique(S, blog) ==
    IF Matches(S, "blogpost", "slug", blog.slug) # {} THEN S
    ELSE create_document(S, "blogpost", blog)

\* create_document("blogpost", blog.model_dump())
InsertBlog(S, blog) == create_document(S, "blogpost", blog)

create_blog(dbh, S, blog) ==
    IF ~dbh THEN Out(S, Unhandled("TypeError"))
    ELSE IF SlugTaken(S, blog.slug)
    THEN Out(S, HTTPException(400, "Slug already exists"))
    ELSE Out(InsertBlog(S, blog), OK([id |-> NewId(S, "blogpost")]))

get_blog(dbh, S, slug) ==
    IF ~dbh THEN Out(S, Unhandled("TypeError"))
    ELSE IF find_one(S, "blogpost", "slug", slug) = NoDocument
    THEN Out(S, HTTPException(404, "Not found"))
    ELSE Out(S, OK(NormalizeId(find_one(S, "blogpost", "slug", slug))))

-----------------------------------------------------------------------------
(* Consultations *)

book_consultation(dbh, S, req) ==
    IF ~dbh THEN Out(S, StoreUnavailable)
    ELSE Out(create_document(S, "consultation", req),
             OK([id |-> NewId(S, "consultation"), status |-> "pending"]))

list_consultations(dbh, S, limit) == list_limited(dbh, S, "consultation", limit)

-----------------------------------------------------------------------------
(* Checkout / orders *)

Hundredths(units) == units * 100

\* round(x, 2) of a value given in ten-thousandths, in hundredths
Round2(n) ==
    LET q == n \div 100
        r == n % 100
    IN IF r < 50 THEN q
       ELSE IF r > 50 THEN q + 1
       ELSE IF q % 2 = 0 THEN q ELSE q + 1

RECURSIVE Subtotal(_)
Subtotal(items) ==
    IF items = <<>> THEN 0
    ELSE Hundredths(Head(items).price) * Head(items).quantity + Subtotal(Tail(items))

Tax(subtotal) == Round2(subtotal * GstPercent)

\* Shipping with the threshold itself still charged
ShippingInclusive(subtotal) ==
    IF subtotal <= Hundredths(FreeShippingFrom) THEN Hundredths(ShippingFee) ELSE 0

Shipping(subtotal) ==
    IF subtotal < Hundredths(FreeShippingFrom) THEN Hundredths(ShippingFee) ELSE 0

Total(subtotal, tax, shipping) == Round2((subtotal + tax + shipping) * 100)

order_doc(items) ==
    LET subtotal == Subtotal(items)
        tax == Tax(subtotal)
        shipping == Shipping(subtotal)
    IN [items |-> items,
        subtotal |-> subtotal,
        tax |-> tax,
        shipping |-> shipping,
        total |-> Total(subtotal, tax, shipping),
        currency |-> "INR",
        payment_status |-> "pending",
        payment_provider |-> "mock"]

\* the empty-cart test left out
CartNeverEmpty(items) == FALSE

\* if not req.items
CartEmpty(items) == items = <<>>

create_order(dbh, S, items) ==
    IF CartEmpty(items) THEN Out(S, HTTPException(400, "Cart is empty"))
    ELSE IF ~dbh THEN Out(S, StoreUnavailable)
    ELSE Out(create_document(S, "order", order_doc(items)),
             OK([order_id |-> NewId(S, "order"),
                 amount |-> order_doc(items).total,
                 currency |-> "INR"]))

\* NewStatus with an absent status taken as paid
NewStatusAbsentPaid(status) == IF status \in {"paid", None} THEN "paid" ELSE "failed"

\* new_status = "paid" if status == "paid" else "failed"
NewStatus(status) == IF status = "paid" THEN "paid" ELSE "failed"

confirm_order(dbh, S, order_id, status) ==
    IF order_id = None THEN Out(S, HTTPException(400, "order_id required"))
    ELSE IF order_id = "" THEN Out(S, HTTPException(404, "Order not found"))
    ELSE IF ~dbh THEN Out(S, Unhandled("TypeError"))
    ELSE IF ~ObjectIdValid(order_id) THEN Out(S, Unhandled("InvalidId"))
    ELSE IF find_one(S, "order", "_id", order_id) = NoDocument
    THEN Out(S, HTTPException(404, "Order not found"))
    ELSE Out(update_one(S, "order", order_id, "payment_status", NewStatus(status)),
             OK([order_id |-> order_id, payment_status |-> NewStatus(status)]))

list_orders(dbh, S, limit) == list_limited(dbh, S, "order", limit)

-----------------------------------------------------------------------------
(* Inputs *)

Items == [price : Prices, quantity : Quantities]

RECURSIVE SeqsUpTo(_, _)
SeqsUpTo(S, n) ==
    IF n = 0 THEN {<<>>}
    ELSE LET shorter == SeqsUpTo(S, n - 1) IN
         shorter \cup {Append(s, x) : s \in {t \in shorter : Len(t) = n - 1}, x \in S}

\* every cart of at most MaxItems items
WideCarts == SeqsUpTo(Items, MaxItems)

\* the carts of the system model: the empty cart and a two-item cart exactly on
\* the free-shipping threshold
Carts ==
    {<<>>, <<[price |-> 333, quantity |-> 2], [price |-> 333, quantity |-> 1]>>}

Blogs == [slug : Slugs, title : {"Post"}]

ConsultationRequests == [name : {"Asha"}, doctor : Doctors, date : {"2025-01-01"}, time : Times]

\* order ids a caller may send: absent, empty, malformed, every id the store
\* can have minted for an order, and one well-formed id it has not
OrderIdInputs ==
    {None, "", "nonexistent"} \cup {HexId(n) : n \in 1..(MaxOrders + 1)}

-----------------------------------------------------------------------------
(* Requests handled one after another *)

Init ==
    /\ db \in BOOLEAN
    /\ store \in {EmptyStore, LegacyStore(EmptyStore)}
    /\ last = [op |-> "start", args |-> <<>>, resp |-> OK([items |-> <<>>])]
    /\ reqs = <<>>
    /\ origin = store

Handle(op, args, out) ==
    /\ store' = out.store
    /\ last' = [op |-> op, args |-> args, resp |-> out.resp]
    /\ UNCHANGED <<db, reqs, origin>>

SeedProducts ==
    \E force \in BOOLEAN :
        Handle("seed_products", [force |-> force], seed_products(db, store, force))

ListProducts == Handle("list_products", <<>>, list_products(db, store))

ListBlogs == Handle("list_blogs", <<>>, list_blogs(db, store))

CreateBlog ==
    \E blog \in Blogs :
        Handle("create_blog", [blog |-> blog], create_blog(db, store, blog))

GetBlog ==
    \E slug \in Slugs :
        Handle("get_blog", [slug |-> slug], get_blog(db, store, slug))

BookConsultation ==
    \E req \in ConsultationRequests :
        /\ Len(store.consultation) < MaxConsultations
        /\ Handle("book_consultation", [req |-> req], book_consultation(db, store, req))

ListConsultations ==
    \E limit \in Limits :
        Handle("list_consultations", [limit |-> limit], list_consultations(db, store, limit))

CreateOrder(carts) ==
    \E items \in carts :
        /\ items = <<>> \/ Len(store.order) < MaxOrders
        /\ Handle("create_order", [items |-> items], create_order(db, store, items))

ConfirmOrder ==
    \E order_id \in OrderIdInputs, status \in Statuses :
        Handle("confirm_order", [order_id |-> order_id, status |-> status],
               confirm_order(db, store, order_id, status))

ListOrders ==
    \E limit \in Limits :
        Handle("list_orders", [limit |-> limit], list_orders(db, store, limit))

CreateOrderSys == CreateOrder(Carts)

Next ==
    \/ SeedProducts
    \/ ListProducts
    \/ ListBlogs
    \/ CreateBlog
    \/ GetBlog
    \/ BookConsultation
    \/ ListConsultations
    \/ CreateOrderSys
    \/ ConfirmOrder
    \/ ListOrders

Spec == Init /\ [][Next]_vars

-----------------------------------------------------------------------------
(* create_order on its own: one cart of the wide input set per run *)

InitPrice ==
    /\ db = TRUE
    /\ store = EmptyStore
    /\ last = [op |-> "start", args |-> <<>>, resp |-> OK([items |-> <<>>])]
    /\ reqs = <<>>
    /\ origin = store

PriceOrder ==
    /\ store.order = <<>>
    /\ CreateOrder(WideCarts)

ConfirmPriced ==
    /\ store.order # <<>>
    /\ \E status \in Statuses :
           Handle("confirm_order", [order_id |-> HexId(1), status |-> status],
                  confirm_order(db, store, HexId(1), status))

NextPrice == PriceOrder \/ ConfirmPriced

SpecPrice == InitPrice /\ [][NextPrice]_vars

-----------------------------------------------------------------------------
(* Requests in flight together: every store call is one atomic step *)

\* the requests that may run together
Requests ==
    {[kind |-> "seed_products", args |-> [force |-> f]] : f \in BOOLEAN}
    \cup {[kind |-> "list_products", args |-> <<>>]}
    \cup {[kind |-> "create_blog", args |-> [blog |-> b]] : b \in Blogs}
    \cup {[kind |-> "confirm_order", args |-> [order_id |-> HexId(1), status |-> st]] :
              st \in {"paid", "refunded"}}

FirstStep(kind) ==
    CASE kind = "seed_products" -> "count"
      [] kind = "list_products" -> "find"
      [] kind = "create_blog" -> "find_one"
      [] kind = "confirm_order" -> "find_one"

Admit(r) ==
    [kind |-> r.kind, args |-> r.args, pc |-> FirstStep(r.kind),
     inserted |-> 0, resp |-> OK([pending |-> TRUE])]

\* an order placed before the requests are admitted
PlacedOrder ==
    create_order(TRUE, EmptyStore, <<[price |-> 499, quantity |-> 2]>>).store

InitConc ==
    /\ db = TRUE
    /\ store \in {PlacedOrder, LegacyStore(PlacedOrder)}
    /\ last = [op |-> "start", args |-> <<>>, resp |-> OK([items |-> <<>>])]
    /\ \E n \in 1..MaxRequests : reqs \in [1..n -> {Admit(r) : r \in Requests}]
    /\ origin = store

At(i, kind, pc) == reqs[i].kind = kind /\ reqs[i].pc = pc

Goto(i, pc) == reqs' = [reqs EXCEPT ![i].pc = pc]

Finish(i, resp) == reqs' = [reqs EXCEPT ![i].pc = "done", ![i].resp = resp]

\* existing = db["product"].count_documents({}), then the test on it
SeedCount(i) ==
    /\ At(i, "seed_products", "count")
    /\ IF SkipSeeding(count_documents(store), reqs[i].args.force)
       THEN Finish(i, OK([inserted |-> 0]))
       ELSE Goto(i, IF reqs[i].args.force THEN "delete_many" ELSE "insert")
    /\ UNCHANGED <<db, store, last, origin>>

\* db["product"].delete_many({})
SeedDelete(i) ==
    /\ At(i, "seed_products", "delete_many")
    /\ store' = delete_many(store)
    /\ Goto(i, "insert")
    /\ UNCHANGED <<db, last, origin>>

\* one turn of the loop: create_document("product", p); inserted += 1
SeedInsert(i) ==
    /\ At(i, "seed_products", "insert")
    /\ store' = create_product(store, SAMPLE_PRODUCTS[reqs[i].inserted + 1])
    /\ IF reqs[i].inserted + 1 = Len(SAMPLE_PRODUCTS)
       THEN Finish(i, OK([inserted |-> reqs[i].inserted + 1]))
       ELSE reqs' = [reqs EXCEPT ![i].inserted = @ + 1]
    /\ UNCHANGED <<db, last, origin>>

\* docs = get_documents("product")
ListProductsFind(i) ==
    /\ At(i, "list_products", "find")
    /\ Finish(i, list_products(db, store).resp)
    /\ UNCHANGED <<db, store, last, origin>>

\* exists = db["blogpost"].find_one({"slug": blog.slug}), then the test on it
BlogFindOne(i) ==
    /\ At(i, "create_blog", "find_one")
    /\ IF SlugTaken(store, reqs[i].args.blog.slug)
       THEN Finish(i, HTTPException(400, "Slug already exists"))
       ELSE Goto(i, "insert")
    /\ UNCHANGED <<db, store, last, origin>>

\* bid = create_document("blogpost", blog.model_dump())
BlogInsert(i) ==
    /\ At(i, "create_blog", "insert")
    /\ store' = InsertBlog(store, reqs[i].args.blog)
    /\ Finish(i, OK([id |-> NewId(store, "blogpost")]))
    /\ UNCHANGED <<db, last, origin>>

\* order = db["order"].find_one({"_id": ObjectId(order_id)}), then the test on it
ConfirmFindOne(i) ==
    /\ At(i, "confirm_order", "find_one")
    /\ IF find_one(store, "order", "_id", reqs[i].args.order_id) = NoDocument
       THEN Finish(i, HTTPException(404, "Order not found"))
       ELSE Goto(i, "update_one")
    /\ UNCHANGED <<db, store, last, origin>>

\* db["order"].update_one(..., {"$set": {"payment_status": new_status}})
ConfirmUpdateOne(i) ==
    /\ At(i, "confirm_order", "update_one")
    /\ store' = update_one(store, "order", reqs[i].args.order_id, "payment_status",
                           NewStatus(reqs[i].args.status))
    /\ Finish(i, OK([order_id |-> reqs[i].args.order_id,
                     payment_status |-> NewStatus(reqs[i].args.status)]))
    /\ UNCHANGED <<db, last, origin>>

Slots == 1..MaxRequests

SeedCounts == \E i \in Slots : i <= Len(reqs) /\ SeedCount(i)
SeedDeletes == \E i \in Slots : i <= Len(reqs) /\ SeedDelete(i)
SeedInserts == \E i \in Slots : i <= Len(reqs) /\ SeedInsert(i)
ListProductsFinds == \E i \in Slots : i <= Len(reqs) /\ ListProductsFind(i)
BlogFindOnes == \E i \in Slots : i <= Len(reqs) /\ BlogFindOne(i)
BlogInserts == \E i \in Slots : i <= Len(reqs) /\ BlogInsert(i)
ConfirmFindOnes == \E i \in Slots : i <= Len(reqs) /\ ConfirmFindOne(i)
ConfirmUpdateOnes == \E i \in Slots : i <= Len(reqs) /\ ConfirmUpdateOne(i)

NextConc ==
    \/ SeedCounts
    \/ SeedDeletes
    \/ SeedInserts
    \/ ListProductsFinds
    \/ BlogFindOnes
    \/ BlogInserts
    \/ ConfirmFindOnes
    \/ ConfirmUpdateOnes

SpecConc == InitConc /\ [][NextConc]_vars

AllDone == \A i \in 1..Len(reqs) : reqs[i].pc = "done"

-----------------------------------------------------------------------------
(* Claims *)

\* the order a successful create_order has just stored
CreatedOrder == store.order[Len(store.order)]

SumOfItems(items) ==
    LET RECURSIVE Upto(_)
        Upto(n) == IF n = 0 THEN 0
                   ELSE Upto(n - 1) + items[n].price * items[n].quantity * 100
    IN Upto(Len(items))

\* h is v (in ten-thousandths) rounded to the nearest hundredth
NearestHundredth(h, v) == 2 * (100 * h - v) <= 100 /\ 2 * (v - 100 * h) <= 100

\* C3: create_order on a non-empty item list stores and returns amounts with
\* subtotal = sum of price * quantity, tax = 18% of the subtotal rounded to 2
\* decimals, shipping = 49.00 exactly when subtotal < 999 and 0 otherwise,
\* total = subtotal + tax + shipping rounded to 2 decimals, and the stored order
\* has currency "INR", payment_status "pending" and payment_provider "mock".
C3_CheckoutArithmetic ==
    (db /\ last.op = "create_order" /\ last.args.items # <<>>) =>
        LET o == CreatedOrder IN
        /\ last.resp.code = 200
        /\ o["_id"] = last.resp.body.order_id
        /\ o.items = last.args.items
        /\ o.subtotal = SumOfItems(last.args.items)
        /\ NearestHundredth(o.tax, 18 * o.subtotal)
        /\ 100 * o.tax = 18 * o.subtotal
        /\ (o.subtotal < 99900 => o.shipping = 4900)
        /\ (o.subtotal >= 99900 => o.shipping = 0)
        /\ o.total = o.subtotal + o.tax + o.shipping
        /\ last.resp.body.amount = o.total
        /\ last.resp.body.currency = "INR"
        /\ o.currency = "INR"
        /\ o.payment_status = "pending"
        /\ o.payment_provider = "mock"

\* an order of several items whose subtotal is exactly 999.00 ships free
C3_Witness ==
    /\ last.op = "create_order"
    /\ Len(last.args.items) > 1
    /\ last.resp.code = 200
    /\ CreatedOrder.subtotal = 99900
    /\ CreatedOrder.shipping = 0
    /\ CreatedOrder.total = 117882

-----------------------------------------------------------------------------
(* Claims about requests handled one after another *)

IsSampleCatalog(products) ==
    /\ BagCardinality(products) = 10
    /\ \A n \in 1..10 :
          \E p \in BagToSet(products) :
              /\ p.title = "Product " \o ToString(n)
              /\ p.price = 499 + 50 * (n - 1)
              /\ CopiesIn(p, products) = 1
    /\ \A p, q \in BagToSet(products) : p.sku < q.sku => p.price < q.price

\* C1: seedProducts with force leaves exactly the 10 sample products whatever
\* the collection held and reports 10; without force on an empty collection it
\* inserts the same 10 and reports 10; without force on a non-empty collection
\* it changes nothing and reports 0.
C1_SeedPostcondition ==
    [][(db /\ last'.op = "seed_products") =>
          IF last'.args.force \/ store.product = EmptyBag
          THEN /\ IsSampleCatalog(store'.product)
               /\ last'.resp = OK([inserted |-> 10])
          ELSE /\ store'.product = store.product
               /\ last'.resp = OK([inserted |-> 0])]_vars

\* a forced seed has replaced a collection that held something else
C1_Witness ==
    /\ db
    /\ last.op = "seed_products"
    /\ last.args.force
    /\ origin.product # EmptyBag
    /\ ~BagIn(LegacyProduct, store.product)
    /\ IsSampleCatalog(store.product)
    /\ last.resp.body.inserted = 10

NoDuplicateSlugs ==
    \A i, j \in 1..Len(store.blogpost) :
        store.blogpost[i].slug = store.blogpost[j].slug => i = j

\* C2: a createBlog whose slug is already in the collection fails with the
\* Conflict error and writes nothing, one whose slug is new inserts exactly one
\* document, and no two blogpost documents ever share a slug.
C2_SequentialSlugUnique ==
    [][/\ (db /\ last'.op = "create_blog") =>
            IF \E i \in 1..Len(store.blogpost) :
                  store.blogpost[i].slug = last'.args.blog.slug
            THEN /\ last'.resp.code = 400
                 /\ last'.resp.detail = "Slug already exists"
                 /\ store' = store
            ELSE /\ last'.resp.code = 200
                 /\ Len(store'.blogpost) = Len(store.blogpost) + 1
                 /\ SubSeq(store'.blogpost, 1, Len(store.blogpost)) = store.blogpost
                 /\ store'.blogpost[Len(store'.blogpost)].slug = last'.args.blog.slug
                 /\ store'.blogpost[Len(store'.blogpost)]["_id"] = last'.resp.body.id
                 /\ [store' EXCEPT !.blogpost = store.blogpost] = store
       /\ NoDuplicateSlugs']_vars

\* the second createBlog of a slug was refused
C2_Witness ==
    /\ db
    /\ last.op = "create_blog"
    /\ last.resp.code = 400
    /\ last.resp.detail = "Slug already exists"
    /\ Cardinality(Matches(store, "blogpost", "slug", last.args.blog.slug)) = 1
    /\ Len(store.blogpost) = 2

OrderIndex(S, id) == {i \in 1..Len(S.order) : S.order[i]["_id"] = id}

\* C4: confirmOrder on an existing order sets its payment_status to "paid" when
\* status is exactly "paid" and to "failed" for any other value or none, returns
\* that value and changes nothing else; and a payment_status changes only in a
\* confirmOrder step on that order, the amounts of an order never.
C4_ConfirmFrame ==
    [][/\ (db /\ last'.op = "confirm_order"
              /\ OrderIndex(store, last'.args.order_id) # {}) =>
            LET i == CHOOSE k \in OrderIndex(store, last'.args.order_id) : TRUE
                expected == IF last'.args.status = "paid" THEN "paid" ELSE "failed"
            IN /\ store'.order[i].payment_status = expected
               /\ last'.resp = OK([order_id |-> last'.args.order_id,
                                   payment_status |-> expected])
               /\ [store' EXCEPT !.order[i].payment_status =
                                      store.order[i].payment_status] = store
       /\ \A i \in 1..Len(store.order) :
            /\ i <= Len(store'.order)
            /\ [store'.order[i] EXCEPT !.payment_status = "pending"]
                 = [store.order[i] EXCEPT !.payment_status = "pending"]
            /\ store'.order[i].payment_status # store.order[i].payment_status =>
                   /\ last'.op = "confirm_order"
                   /\ last'.args.order_id = store.order[i]["_id"]]_vars

\* an order was confirmed with no status given while another order stayed pending
C4_Witness ==
    /\ db
    /\ last.op = "confirm_order"
    /\ last.args.status = None
    /\ last.resp.code = 200
    /\ last.resp.body.payment_status = "failed"
    /\ Len(store.order) = 2
    /\ \E i, j \in 1..2 :
          /\ store.order[i]["_id"] = last.args.order_id
          /\ store.order[i].payment_status = "failed"
          /\ store.order[j].payment_status = "pending"

\* C5: confirmOrder with an order_id that identifies no stored order, also one
\* not in the identifier format, fails with NotFound (404); with no order_id it
\* fails with BadRequest (400).
C5_UnknownOrderIsNotFound ==
    (db /\ last.op = "confirm_order") =>
        /\ last.args.order_id = None => last.resp.code = 400
        /\ (last.args.order_id # None /\ OrderIndex(store, last.args.order_id) = {}) =>
               last.resp.code = 404

\* C6: createOrder with an empty items list fails with BadRequest and leaves
\* every collection as it was.
C6_EmptyCart ==
    [][(last'.op = "create_order" /\ last'.args.items = <<>>) =>
          /\ last'.resp.code = 400
          /\ last'.resp.detail = "Cart is empty"
          /\ store' = store]_vars

\* an empty cart was refused while the store held orders and products
C6_Witness ==
    /\ last.op = "create_order"
    /\ last.args.items = <<>>
    /\ last.resp.code = 400
    /\ Len(store.order) = 2
    /\ store.product # EmptyBag

\* C7: bookConsultation succeeds whatever bookings exist for the same
\* doctor, date and time, adds exactly one document, and the document it
\* persists carries status "pending", the status the call returns.
C7_BookingPersistsPending ==
    (db /\ last.op = "book_consultation") =>
        LET c == store.consultation[Len(store.consultation)] IN
        /\ last.resp.code = 200
        /\ c["_id"] = last.resp.body.id
        /\ "status" \in DOMAIN c
        /\ c["status"] = last.resp.body.status

StoreHandlers ==
    {"seed_products", "list_products", "list_blogs", "create_blog", "get_blog",
     "book_consultation", "list_consultations", "list_orders"}

\* C8: with the store handle absent, every handler that reads or writes the
\* store reports StoreUnavailable (503).
C8_StoreDownIs503 ==
    /\ (~db /\ last.op \in StoreHandlers) => last.resp.code = 503
    /\ (~db /\ last.op = "create_order" /\ last.args.items # <<>>) =>
           last.resp.code = 503
    /\ (~db /\ last.op = "confirm_order" /\ last.args.order_id \notin {None, ""}) =>
           last.resp.code = 503

-----------------------------------------------------------------------------
(* Claims about requests in flight together *)

SucceededBlogs(slug) ==
    {i \in 1..Len(reqs) :
        /\ reqs[i].kind = "create_blog"
        /\ reqs[i].args.blog.slug = slug
        /\ reqs[i].pc = "done"
        /\ reqs[i].resp.code = 200}

\* C9: two createBlog requests for one slug can both pass the check and both
\* insert: the collection holds one document of a slug for every createBlog of
\* that slug that reported success, two when both did.
C9_BothInsert ==
    \A slug \in Slugs :
        Cardinality(Matches(store, "blogpost", "slug", slug))
            = Cardinality(SucceededBlogs(slug))

\* both requests for one slug reported success and two documents share the slug
C9_Witness ==
    /\ AllDone
    /\ \E slug \in Slugs :
          /\ Cardinality(SucceededBlogs(slug)) = 2
          /\ \E i, j \in 1..Len(store.blogpost) :
                /\ i # j
                /\ store.blogpost[i].slug = slug
                /\ store.blogpost[j].slug = slug

\* the handler of a request, run on its own
Alone(S, r) ==
    CASE r.kind = "seed_products" -> seed_products(TRUE, S, r.args.force)
      [] r.kind = "list_products" -> list_products(TRUE, S)
      [] r.kind = "create_blog" -> create_blog(TRUE, S, r.args.blog)
      [] r.kind = "confirm_order" ->
            confirm_order(TRUE, S, r.args.order_id, r.args.status)

\* the requests run one at a time in the order p, from the store S
RECURSIVE OneAtATime(_, _, _)
OneAtATime(S, p, k) ==
    IF k > Len(p) THEN [store |-> S, resps |-> [i \in {} |-> 0]]
    ELSE LET out == Alone(S, reqs[p[k]])
             rest == OneAtATime(out.store, p, k + 1)
         IN [store |-> rest.store,
             resps |-> [i \in DOMAIN rest.resps \cup {p[k]} |->
                           IF i = p[k] THEN out.resp ELSE rest.resps[i]]]

Orderings(n) == {p \in [1..n -> 1..n] : \A i, j \in 1..n : p[i] = p[j] => i = j}

NoTwoBlogsOfOneSlug ==
    \A i, j \in 1..Len(reqs) :
        (/\ reqs[i].kind = "create_blog"
         /\ reqs[j].kind = "create_blog"
         /\ reqs[i].args.blog.slug = reqs[j].args.blog.slug) => i = j

\* C10: requests running together, no two of them createBlog calls of one slug,
\* end in a store and in responses that some one-at-a-time order of the same
\* requests produces.
C10_Serializable ==
    (AllDone /\ NoTwoBlogsOfOneSlug) =>
        \E p \in Orderings(Len(reqs)) :
            LET run == OneAtATime(origin, p, 1) IN
            /\ run.store = store
            /\ \A i \in 1..Len(reqs) : run.resps[i] = reqs[i].resp

====
